---- MODULE Spec2Model ----
(***************************************************************************)
(* The chat_completion tool handler of the Perplexity MCP server           *)
(* (src/unnamed/part_000, the variant with custom_template; the catalog    *)
(* PROMPT_TEMPLATES is the prompt-templates module printed in              *)
(* src/README.md).  One handler invocation per call slot: template         *)
(* resolution, message composition, the 30 s timer, fetch, validation of   *)
(* the response and the envelope returned.                                 *)
(***************************************************************************)
EXTENDS Integers, Sequences, FiniteSets

(***************************************************************************)
(* JavaScript values.  Every value is a record tagged with its type, so    *)
(* that undefined, null, strings, booleans, numbers, objects and arrays    *)
(* can sit in the same slot.  A string is a sequence of atomic segments:   *)
(* a template literal concatenates segments, and "text contains x" is      *)
(* "x is one of its segments".                                             *)
(***************************************************************************)
Undefined == [type |-> "undefined"]

Null == [type |-> "null"]

Str(segments) == [type |-> "string", s |-> segments]

S(literal) == Str(<<literal>>)

EmptyStr == Str(<<>>)

Bool(b) == [type |-> "boolean", b |-> b]

Num(n) == [type |-> "number", n |-> n]

Obj(fields) == [type |-> "object", fields |-> fields]

Arr(items) == [type |-> "array", items |-> items]

\* Object.prototype.constructor and friends: what an inherited key yields.
Func(name) == [type |-> "function", name |-> name]

NoFields == <<>>

Concat(a, b) == Str(a.s \o b.s)

Contains(str, literal) == \E i \in 1..Len(str.s) : str.s[i] = literal

Nullish(v) == v.type \in {"undefined", "null"}

\* ToBoolean: the condition of `x ? a : b` and of `!x`.
Truthy(v) ==
    CASE v.type \in {"undefined", "null"} -> FALSE
      [] v.type = "string" -> v.s # <<>>
      [] v.type = "boolean" -> v.b
      [] v.type = "number" -> v.n # 0
      [] OTHER -> TRUE

\* a ?? b
Coalesce(a, b) == IF Nullish(a) THEN b ELSE a

\* Names every plain object inherits from Object.prototype.
ObjectPrototypeKeys == {"constructor", "toString", "valueOf", "hasOwnProperty"}

\* The property key a string value names (the inputs are single segments).
PropertyKey(v) == IF v.s = <<>> THEN "" ELSE v.s[1]

\* v[key] for a v that is not nullish: own property, inherited member, or
\* undefined.  (v[key] on undefined or null throws a TypeError: the callers
\* test Nullish first.)
Get(v, key) ==
    CASE v.type = "object" ->
           IF key \in DOMAIN v.fields THEN v.fields[key]
           ELSE IF key \in ObjectPrototypeKeys THEN Func(key)
           ELSE Undefined
      [] OTHER -> Undefined

\* v[i] for an array index i (JavaScript counts from 0).
At(v, i) ==
    IF v.type = "array" /\ (i + 1) \in DOMAIN v.items THEN v.items[i + 1]
    ELSE Undefined

\* v?.key
OptGet(v, key) == IF Nullish(v) THEN Undefined ELSE Get(v, key)

\* v?.[i]
OptAt(v, i) == IF Nullish(v) THEN Undefined ELSE At(v, i)

\* A destructuring default: `{ x = d }` takes d when x is undefined only.
Default(v, d) == IF v.type = "undefined" THEN d ELSE v

\* `${v}`
TemplateString(v) ==
    CASE v.type = "string" -> v
      [] v.type = "undefined" -> S("undefined")
      [] v.type = "null" -> S("null")
      [] v.type = "boolean" -> IF v.b THEN S("true") ELSE S("false")
      [] v.type = "number" -> S("<number>")
      [] v.type = "array" -> S("<array>")
      [] v.type = "function" -> S("<function source>")
      [] OTHER -> S("[object Object]")

(***************************************************************************)
(* The catalog of named templates.                                         *)
(***************************************************************************)
PROMPT_TEMPLATES ==
    Obj([technical_docs |-> Obj(
            [system |-> S("You are a technical documentation assistant. Provide clear, accurate, and well-structured information with code examples where relevant."),
             format |-> S("markdown"),
             include_sources |-> Bool(TRUE),
             description |-> S("Technical documentation with code examples and source references")]),
         security_practices |-> Obj(
            [system |-> S("You are a security expert. Provide detailed security best practices, implementation guidelines, and potential vulnerability mitigations."),
             format |-> S("markdown"),
             include_sources |-> Bool(TRUE),
             description |-> S("Security best practices and implementation guidelines with references")]),
         code_review |-> Obj(
            [system |-> S("You are a code review assistant. Analyze code for best practices, potential issues, and suggest improvements."),
             format |-> S("markdown"),
             include_sources |-> Bool(FALSE),
             description |-> S("Code analysis focusing on best practices and improvements")]),
         api_docs |-> Obj(
            [system |-> S("You are an API documentation assistant. Provide clear explanations of API endpoints, parameters, and usage examples."),
             format |-> S("json"),
             include_sources |-> Bool(TRUE),
             description |-> S("API documentation in structured JSON format with examples")])])

\* Object.keys(PROMPT_TEMPLATES): the enum the input schema advertises.
PromptTemplateKeys == DOMAIN PROMPT_TEMPLATES.fields

(***************************************************************************)
(* The handler's computations, as the code writes them.                    *)
(***************************************************************************)
\* Mutant of TemplateOf: the named template is looked at first.
TemplateOf_NamedFirst(prompt_template, custom_template) ==
    IF Truthy(prompt_template)
    THEN Coalesce(Get(PROMPT_TEMPLATES, PropertyKey(prompt_template)), custom_template)
    ELSE Coalesce(custom_template, Null)

\* const template = custom_template ?? (prompt_template ? PROMPT_TEMPLATES[prompt_template] : null)
TemplateOf(prompt_template, custom_template) ==
    Coalesce(custom_template,
             IF Truthy(prompt_template)
             THEN Get(PROMPT_TEMPLATES, PropertyKey(prompt_template))
             ELSE Null)

\* Mutant of FormatOf: the template's format beats the override.
FormatOf_TemplateFirst(user_format, tmpl) ==
    Coalesce(Coalesce(OptGet(tmpl, "format"), user_format), S("text"))

\* const format = user_format ?? template?.format ?? 'text'
FormatOf(user_format, tmpl) ==
    Coalesce(Coalesce(user_format, OptGet(tmpl, "format")), S("text"))

\* Mutant of IncludeSourcesOf: || in place of ??, so an explicit false falls
\* through to the template.
IncludeSourcesOf_Or(user_include_sources, tmpl) ==
    IF Truthy(user_include_sources) THEN user_include_sources
    ELSE IF Truthy(OptGet(tmpl, "include_sources")) THEN OptGet(tmpl, "include_sources")
    ELSE Bool(FALSE)

\* const include_sources = user_include_sources ?? template?.include_sources ?? false
IncludeSourcesOf(user_include_sources, tmpl) ==
    Coalesce(Coalesce(user_include_sources, OptGet(tmpl, "include_sources")),
             Bool(FALSE))

\* const final_messages = template ? [{role: 'system', content: template.system}, ...messages] : messages
FinalMessagesOf(tmpl, messages) ==
    IF Truthy(tmpl)
    THEN Arr(<<Obj([role |-> S("system"), content |-> Get(tmpl, "system")])>>
             \o messages.items)
    ELSE messages

\* JSON.stringify: an object member that is undefined or a function is
\* dropped, an array element that is one becomes null.
RECURSIVE JsonStringify(_)
JsonStringify(v) ==
    CASE v.type = "object" ->
           Obj([k \in {j \in DOMAIN v.fields :
                          v.fields[j].type \notin {"undefined", "function"}}
                  |-> JsonStringify(v.fields[k])])
      [] v.type = "array" ->
           Arr([i \in DOMAIN v.items |->
                  IF v.items[i].type \in {"undefined", "function"}
                  THEN Null
                  ELSE JsonStringify(v.items[i])])
      [] OTHER -> v

\* The body of the POST.
RequestBody(model, messages, temperature, max_tokens, fmt, inc) ==
    JsonStringify(Obj([model |-> model,
                       messages |-> messages,
                       temperature |-> temperature,
                       max_tokens |-> max_tokens,
                       format |-> fmt,
                       include_sources |-> inc]))

\* temperature is carried in tenths: 7 is 0.7, 10 is 1.
DefaultTemperature == 7

DefaultMaxTokens == 1024

DefaultModel == S("sonar")

\* ErrorCode of the protocol SDK.
MethodNotFound == -32601

InvalidParams == -32602

InternalError == -32603

JsError(class, message) == [type |-> "error", class |-> class, message |-> message]

\* new McpError(code, message): the SDK prefixes the message with the code.
McpError(code, message) ==
    [type |-> "error", class |-> "McpError", code |-> code,
     message |-> Concat(IF code = MethodNotFound THEN S("MCP error -32601: ")
                        ELSE IF code = InvalidParams THEN S("MCP error -32602: ")
                        ELSE S("MCP error -32603: "),
                        message)]

\* What the runtime throws for a property read on null or undefined.
TypeErrorReading(v, key) ==
    JsError("TypeError",
            Str(<<"Cannot read properties of ", v.type, " (reading '", key, "')">>))

\* What fetch and body reads reject with once the signal is aborted.
AbortError == JsError("AbortError", S("This operation was aborted"))

\* What fetch rejects with when the network fails.
NetworkError == JsError("TypeError", S("fetch failed"))

\* What response.json() rejects with on a body that is not JSON.
SyntaxError == JsError("SyntaxError", S("Unexpected token in JSON"))

\* The catch block: every error thrown inside the try becomes an envelope.
ErrorEnvelope(error) ==
    Obj([content |-> Arr(<<Obj([type |-> S("text"),
                                text |-> Concat(S("Error generating completion: "),
                                                error.message)])>>),
         isError |-> Bool(TRUE)])

\* Mutant of SuccessEnvelope: the content type is the format itself.
SuccessEnvelope_TypeIsFormat(fmt, data) ==
    Obj([content |-> Arr(<<Obj(
            [type |-> fmt,
             text |-> Get(Get(At(Get(data, "choices"), 0), "message"), "content")])>>)])

\* The return statement of the success path.
SuccessEnvelope(fmt, data) ==
    Obj([content |-> Arr(<<Obj(
            [type |-> IF fmt = S("json") THEN S("json") ELSE S("text"),
             text |-> Get(Get(At(Get(data, "choices"), 0), "message"), "content")])>>)])

\* A Promise's settlement.
Resolved(v) == [kind |-> "resolved", value |-> v]

Rejected(e) == [kind |-> "rejected", error |-> e]

\* if (!response.ok) { errorData = await response.json().catch(() => ({})); throw new McpError(...) }
HttpErrorThrown(statusText, json) ==
    LET errorData == IF json.kind = "resolved" THEN json.value ELSE Obj(NoFields)
    IN  IF Nullish(errorData)
        THEN TypeErrorReading(errorData, "error")
        ELSE McpError(InternalError,
                      Concat(Concat(S("Perplexity API error: "), statusText),
                             IF Truthy(Get(errorData, "error"))
                             THEN Concat(S(" - "),
                                         TemplateString(Get(errorData, "error")))
                             ELSE EmptyStr))

\* const data = await response.json(); if (!data.choices?.[0]?.message) throw ...; return {...}
\* The settlement of the inner try block on a response with ok = true.
OkBodyResult(fmt, json) ==
    IF json.kind = "rejected" THEN Rejected(json.error)
    ELSE LET data == json.value
         IN  IF Nullish(data) THEN Rejected(TypeErrorReading(data, "choices"))
             ELSE IF ~Truthy(OptGet(OptAt(Get(data, "choices"), 0), "message"))
             THEN Rejected(McpError(InternalError,
                                    S("Invalid response format from Perplexity API")))
             ELSE Resolved(SuccessEnvelope(fmt, data))

(***************************************************************************)
(* Inputs: the requests a client sends and the answers the remote gives.   *)
(***************************************************************************)
MaxMessages == 2

MaxCalls == 2

Calls == 1..MaxCalls

\* The slots the sequential specification uses.
SeqCalls == {1}

UserMessage == Obj([role |-> S("user"), content |-> S("hi")])

CallerSystemMessage == Obj([role |-> S("system"), content |-> S("caller system")])

MessageLists ==
    UNION {[1..n -> {UserMessage, CallerSystemMessage}] : n \in 0..MaxMessages}

ToolNames == {S("chat_completion"), S("other_tool")}

\* prompt_template as sent: absent, the empty string, a catalog key, a key
\* the catalog does not have, a key only Object.prototype has.
PromptTemplateInputs ==
    {Undefined, EmptyStr, S("unknown_key"), S("constructor")}
        \cup {S(k) : k \in PromptTemplateKeys}

FormatInputs == {Undefined, S("text"), S("markdown"), S("json")}

BoolInputs == {Undefined, Bool(TRUE), Bool(FALSE)}

CustomTemplateInputs ==
    {Undefined}
        \cup {Obj([system |-> S("custom system"), format |-> f, include_sources |-> i]) :
                f \in FormatInputs, i \in BoolInputs}

Arguments(messages, prompt_template, custom_template, model, temperature, max_tokens, fmt, inc) ==
    Obj([messages |-> messages,
         prompt_template |-> prompt_template,
         custom_template |-> custom_template,
         model |-> model,
         temperature |-> temperature,
         max_tokens |-> max_tokens,
         format |-> fmt,
         include_sources |-> inc])

\* Calls that vary the template inputs and the overrides, on one message.
TemplateArguments ==
    {Arguments(Arr(<<UserMessage>>), pt, ct, Undefined, Undefined, Undefined, f, i) :
        pt \in PromptTemplateInputs, ct \in CustomTemplateInputs,
        f \in FormatInputs, i \in BoolInputs}

\* Calls that vary the message list under every template source.
MessageArguments ==
    {Arguments(Arr(m), pt, ct, Undefined, Undefined, Undefined, Undefined, Undefined) :
        m \in MessageLists, pt \in PromptTemplateInputs,
        ct \in {Undefined,
                Obj([system |-> S("custom system"), format |-> Undefined,
                     include_sources |-> Undefined])}}

\* Calls that vary model, temperature and max_tokens (in and out of the
\* ranges the schema declares).
NumericArguments ==
    {Arguments(Arr(<<UserMessage>>), pt, Undefined, mo, te, mt, Undefined, Undefined) :
        pt \in {Undefined, S("api_docs")},
        mo \in {Undefined, S("sonar-pro")},
        te \in {Undefined, Num(0), Num(10), Num(15), Num(-1)},
        mt \in {Undefined, Num(1), Num(4096), Num(0), Num(5000)}}

Requests ==
    {[name |-> n, arguments |-> a] :
        n \in ToolNames,
        a \in TemplateArguments \cup MessageArguments \cup NumericArguments}

StatusTexts == {S("Bad Request"), S("Internal Server Error")}

AssistantMessage == Obj([role |-> S("assistant"), content |-> S("answer")])

\* Bodies of a response with ok = true, as JSON.parse returns them.
OkBodies ==
    {Null,
     Num(50),
     Obj(NoFields),
     Obj([choices |-> Arr(<<>>)]),
     Obj([choices |-> Arr(<<Null>>)]),
     Obj([choices |-> Arr(<<Obj(NoFields)>>)]),
     Obj([choices |-> Arr(<<Obj([message |-> Null])>>)]),
     Obj([choices |-> Arr(<<Obj([message |-> Obj([role |-> S("assistant")])])>>)]),
     Obj([choices |-> Arr(<<Obj([message |-> AssistantMessage,
                                 finish_reason |-> S("stop")])>>)])}

\* Bodies of a response with ok = false.
ErrorBodies ==
    {Null,
     Num(50),
     Obj(NoFields),
     Obj([error |-> S("rate limited")]),
     Obj([error |-> Obj([message |-> S("rate limited")])]),
     Obj([error |-> EmptyStr])}

(***************************************************************************)
(* State: one handler invocation per call slot.                            *)
(***************************************************************************)
VARIABLES
    pc,              \* where the invocation stands
    request,         \* request.params of the invocation
    template,        \* the handler's local `template`
    format,          \* the handler's local `format`
    include_sources, \* the handler's local `include_sources`
    final_messages,  \* the handler's local `final_messages`
    timeoutId,       \* the timer: "none", "pending", "fired", "cleared"
    aborted,         \* controller.signal.aborted
    sent,            \* the bodies POSTed through fetch, in order
    response,        \* the Response fetch resolved with: ok and statusText
    body,            \* the settlement of response.json()
    outcome          \* what the invocation gave the protocol layer

vars == <<pc, request, template, format, include_sources, final_messages,
          timeoutId, aborted, sent, response, body, outcome>>

NoRequest == [name |-> Undefined, arguments |-> Undefined]

Pending == [kind |-> "pending"]

Init ==
    /\ pc = [c \in Calls |-> "idle"]
    /\ request = [c \in Calls |-> NoRequest]
    /\ template = [c \in Calls |-> Undefined]
    /\ format = [c \in Calls |-> Undefined]
    /\ include_sources = [c \in Calls |-> Undefined]
    /\ final_messages = [c \in Calls |-> Undefined]
    /\ timeoutId = [c \in Calls |-> "none"]
    /\ aborted = [c \in Calls |-> FALSE]
    /\ sent = [c \in Calls |-> <<>>]
    /\ response = [c \in Calls |-> Undefined]
    /\ body = [c \in Calls |-> Pending]
    /\ outcome = [c \in Calls |-> Pending]

\* Mutant of UnknownTool: the name is not checked.
UnknownTool_Never(name) == FALSE

\* if (request.params.name !== 'chat_completion')
UnknownTool(name) == name # S("chat_completion")

\* Mutant of ClearTimeout: the finally block does not clear the timer.
ClearTimeout_Leak(t) == t

\* finally { clearTimeout(timeoutId) }: a timer that has fired stays fired.
ClearTimeout(t) == IF t = "pending" THEN "cleared" ELSE t

\* Mutant of Settle: no catch block, a rejection leaves the handler.
Settle_NoCatch(c, result) ==
    /\ timeoutId' = [timeoutId EXCEPT ![c] = ClearTimeout(@)]
    /\ outcome' = [outcome EXCEPT ![c] = result]
    /\ pc' = [pc EXCEPT ![c] = "returned"]

\* The two try blocks around the network call: the finally clears the
\* timer, the catch turns a rejection into an envelope, and the handler
\* returns.
Settle(c, result) ==
    /\ timeoutId' = [timeoutId EXCEPT ![c] = ClearTimeout(@)]
    /\ outcome' = [outcome EXCEPT ![c] =
                     Resolved(IF result.kind = "rejected"
                              THEN ErrorEnvelope(result.error)
                              ELSE result.value)]
    /\ pc' = [pc EXCEPT ![c] = "returned"]

\* The handler up to its first await.  A name other than chat_completion
\* throws; otherwise the arguments are destructured, the template resolved,
\* the timer armed and the request handed to fetch.
CallTool(c, req) ==
    /\ pc[c] = "idle"
    /\ request' = [request EXCEPT ![c] = req]
    /\ IF UnknownTool(req.name)
       THEN /\ outcome' = [outcome EXCEPT ![c] =
                             Rejected(McpError(MethodNotFound,
                                               Concat(S("Unknown tool: "),
                                                      TemplateString(req.name))))]
            /\ pc' = [pc EXCEPT ![c] = "thrown"]
            /\ UNCHANGED <<template, format, include_sources, final_messages,
                           timeoutId, aborted, sent, response, body>>
       ELSE LET a == req.arguments
                messages == Get(a, "messages")
                model == Default(Get(a, "model"), DefaultModel)
                temperature == Default(Get(a, "temperature"), Num(DefaultTemperature))
                max_tokens == Default(Get(a, "max_tokens"), Num(DefaultMaxTokens))
                tmpl == TemplateOf(Get(a, "prompt_template"), Get(a, "custom_template"))
                fmt == FormatOf(Get(a, "format"), tmpl)
                inc == IncludeSourcesOf(Get(a, "include_sources"), tmpl)
                msgs == FinalMessagesOf(tmpl, messages)
            IN  /\ template' = [template EXCEPT ![c] = tmpl]
                /\ format' = [format EXCEPT ![c] = fmt]
                /\ include_sources' = [include_sources EXCEPT ![c] = inc]
                /\ final_messages' = [final_messages EXCEPT ![c] = msgs]
                /\ timeoutId' = [timeoutId EXCEPT ![c] = "pending"]
                /\ sent' = [sent EXCEPT ![c] =
                              Append(@, RequestBody(model, msgs, temperature,
                                                    max_tokens, fmt, inc))]
                /\ pc' = [pc EXCEPT ![c] = "fetching"]
                /\ UNCHANGED <<aborted, response, body, outcome>>

\* Mutant of TimerFires: the callback does not abort the controller.
TimerFires_NoAbort(c) ==
    /\ timeoutId[c] = "pending"
    /\ timeoutId' = [timeoutId EXCEPT ![c] = "fired"]
    /\ UNCHANGED <<pc, request, template, format, include_sources,
                   final_messages, aborted, sent, response, body, outcome>>

\* Mutant of TimerFires: one controller shared by all invocations.
TimerFires_SharedController(c) ==
    /\ timeoutId[c] = "pending"
    /\ timeoutId' = [timeoutId EXCEPT ![c] = "fired"]
    /\ aborted' = [d \in Calls |-> TRUE]
    /\ UNCHANGED <<pc, request, template, format, include_sources,
                   final_messages, sent, response, body, outcome>>

\* The timer fires: () => controller.abort().
TimerFires(c) ==
    /\ timeoutId[c] = "pending"
    /\ timeoutId' = [timeoutId EXCEPT ![c] = "fired"]
    /\ aborted' = [aborted EXCEPT ![c] = TRUE]
    /\ UNCHANGED <<pc, request, template, format, include_sources,
                   final_messages, sent, response, body, outcome>>

\* fetch resolves with the response's status line; the handler goes on to
\* await response.json() on either branch.
FetchResolves(c, ok, statusText) ==
    /\ pc[c] = "fetching"
    /\ ~aborted[c]
    /\ response' = [response EXCEPT ![c] = Obj([ok |-> Bool(ok), statusText |-> statusText])]
    /\ pc' = [pc EXCEPT ![c] = IF ok THEN "reading_body" ELSE "reading_error_body"]
    /\ UNCHANGED <<request, template, format, include_sources, final_messages,
                   timeoutId, aborted, sent, body, outcome>>

\* fetch rejects: the network failed.
FetchFails(c) ==
    /\ pc[c] = "fetching"
    /\ ~aborted[c]
    /\ Settle(c, Rejected(NetworkError))
    /\ UNCHANGED <<request, template, format, include_sources, final_messages,
                   aborted, sent, response, body>>

\* fetch rejects: the signal was aborted while the request was pending.
FetchAborted(c) ==
    /\ pc[c] = "fetching"
    /\ aborted[c]
    /\ Settle(c, Rejected(AbortError))
    /\ UNCHANGED <<request, template, format, include_sources, final_messages,
                   aborted, sent, response, body>>

\* What response.json() may settle with: the abort error once the signal is
\* aborted, else a parsed value or a syntax error.
JsonSettlements(c, bodies) ==
    IF aborted[c] THEN {Rejected(AbortError)}
    ELSE {Rejected(SyntaxError)} \cup {Resolved(b) : b \in bodies}

\* The branch for !response.ok, from the body read to the return.
ErrorBodyRead(c, json) ==
    /\ pc[c] = "reading_error_body"
    /\ json \in JsonSettlements(c, ErrorBodies)
    /\ body' = [body EXCEPT ![c] = json]
    /\ Settle(c, Rejected(HttpErrorThrown(Get(response[c], "statusText"), json)))
    /\ UNCHANGED <<request, template, format, include_sources, final_messages,
                   aborted, sent, response>>

\* The branch for response.ok, from the body read to the return.
OkBodyRead(c, json) ==
    /\ pc[c] = "reading_body"
    /\ json \in JsonSettlements(c, OkBodies)
    /\ body' = [body EXCEPT ![c] = json]
    /\ Settle(c, OkBodyResult(format[c], json))
    /\ UNCHANGED <<request, template, format, include_sources, final_messages,
                   aborted, sent, response>>

Next ==
    \E c \in SeqCalls :
        \/ pc[c] = "idle" /\ \E req \in Requests : CallTool(c, req)
        \/ TimerFires(c)
        \/ \E statusText \in StatusTexts : FetchResolves(c, FALSE, statusText)
        \/ FetchResolves(c, TRUE, S("OK"))
        \/ FetchFails(c)
        \/ FetchAborted(c)
        \/ \E json \in JsonSettlements(c, ErrorBodies) : ErrorBodyRead(c, json)
        \/ \E json \in JsonSettlements(c, OkBodies) : OkBodyRead(c, json)

Spec == Init /\ [][Next]_vars

(***************************************************************************)
(* Concurrent invocations: the transport calls the handler once per        *)
(* request and the invocations interleave at their awaits.  Each slot      *)
(* draws from a small set of requests and answers.                         *)
(***************************************************************************)
ConcRequests ==
    {[name |-> n,
      arguments |-> Arguments(Arr(<<UserMessage>>), pt, Undefined, Undefined,
                              Undefined, Undefined, Undefined, Undefined)] :
        n \in ToolNames, pt \in {Undefined, S("api_docs")}}

ConcStatusTexts == {S("Bad Request")}

ConcOkBodies ==
    {Null,
     Obj([choices |-> Arr(<<Obj([message |-> AssistantMessage,
                                 finish_reason |-> S("stop")])>>)])}

ConcErrorBodies == {Obj([error |-> S("rate limited")])}

ConcNext ==
    \E c \in Calls :
        \/ pc[c] = "idle" /\ \E req \in ConcRequests : CallTool(c, req)
        \/ TimerFires(c)
        \/ \E statusText \in ConcStatusTexts : FetchResolves(c, FALSE, statusText)
        \/ FetchResolves(c, TRUE, S("OK"))
        \/ FetchFails(c)
        \/ FetchAborted(c)
        \/ \E json \in JsonSettlements(c, ConcErrorBodies) : ErrorBodyRead(c, json)
        \/ \E json \in JsonSettlements(c, ConcOkBodies) : OkBodyRead(c, json)

ConcSpec == Init /\ [][ConcNext]_vars

\* A body read that rejects because the signal is aborted.
ErrorBodyReadAborted(c) == aborted[c] /\ ErrorBodyRead(c, Rejected(AbortError))

OkBodyReadAborted(c) == aborted[c] /\ OkBodyRead(c, Rejected(AbortError))

\* What the runtime guarantees: a pending timer fires after its delay, and a
\* fetch or body read whose signal is aborted rejects.  The remote itself
\* is under no obligation to answer.
Fairness ==
    \A c \in SeqCalls :
        /\ WF_vars(TimerFires(c))
        /\ WF_vars(FetchAborted(c))
        /\ WF_vars(ErrorBodyReadAborted(c))
        /\ WF_vars(OkBodyReadAborted(c))

FairSpec == Init /\ [][Next]_vars /\ Fairness

(***************************************************************************)
(* Properties.                                                             *)
(***************************************************************************)
\* The invocation in slot c passed the tool-name check.
Accepted(c) == pc[c] # "idle" /\ request[c].name = S("chat_completion")

\* An argument of the call in slot c, as the client sent it.
Arg(c, key) == request[c].arguments.fields[key]

\* The members of the one body POSTed by slot c.
Outbound(c) == sent[c][1].fields

\* A non-empty prompt_template that is no key of the catalog.
UnknownKey(v) ==
    v.type = "string" /\ v.s # <<>> /\ PropertyKey(v) \notin PromptTemplateKeys

\* Where the template of the call comes from, for the sources the
\* resolution rules name: a custom template, a catalog key, or nothing.
TemplateSource(c) ==
    IF Arg(c, "custom_template") # Undefined THEN "custom"
    ELSE IF Arg(c, "prompt_template") = Undefined THEN "none"
    ELSE IF ~UnknownKey(Arg(c, "prompt_template"))
            /\ Arg(c, "prompt_template") # EmptyStr THEN "named"
    ELSE "other"

\* The catalog entry or custom template selected, member by member.
SelectedMember(c, member) ==
    CASE TemplateSource(c) = "custom" -> Arg(c, "custom_template").fields[member]
      [] TemplateSource(c) = "named" ->
           PROMPT_TEMPLATES.fields[Arg(c, "prompt_template").s[1]].fields[member]
      [] OTHER -> Undefined

\* override, else the selected template's member, else the hard default.
Expected(c, member, hardDefault) ==
    IF Arg(c, member) # Undefined THEN Arg(c, member)
    ELSE IF SelectedMember(c, member) # Undefined THEN SelectedMember(c, member)
    ELSE hardDefault

\* C1 (as claimed): a chat_completion call with an unknown prompt_template
\* key and no custom_template is rejected with an invalid-argument error and
\* sends no request.
C1_UnknownKeyRejected ==
    \A c \in Calls :
        (Accepted(c) /\ UnknownKey(Arg(c, "prompt_template"))
                     /\ Arg(c, "custom_template") = Undefined)
            => /\ outcome[c].kind = "rejected"
               /\ outcome[c].error.code = InvalidParams
               /\ sent[c] = <<>>

\* C2: when custom_template is present the outbound system message, format
\* and include_sources are those of the custom template and the overrides
\* alone, whatever prompt_template names; a custom template without format
\* and no override gives 'text'.
C2_CustomTemplateWins ==
    \A c \in Calls :
        (Accepted(c) /\ Arg(c, "custom_template") # Undefined)
            => LET custom == Arg(c, "custom_template").fields
                   pick(override, own, hardDefault) ==
                       IF override # Undefined THEN override
                       ELSE IF own # Undefined THEN own ELSE hardDefault
               IN  /\ Len(sent[c]) = 1
                   /\ Outbound(c).messages.items =
                        <<Obj([role |-> S("system"), content |-> custom.system])>>
                            \o Arg(c, "messages").items
                   /\ Outbound(c).format =
                        pick(Arg(c, "format"), custom.format, S("text"))
                   /\ Outbound(c).include_sources =
                        pick(Arg(c, "include_sources"), custom.include_sources,
                             Bool(FALSE))

C2_Witness ==
    \E c \in Calls :
        /\ Accepted(c)
        /\ Arg(c, "custom_template") # Undefined
        /\ Arg(c, "custom_template").fields.format = Undefined
        /\ Arg(c, "prompt_template") = S("api_docs")
        /\ Arg(c, "format") = Undefined
        /\ Len(sent[c]) = 1
        /\ Outbound(c).format = S("text")

\* C3: the include_sources sent is the override if present (an explicit
\* false included), else the selected template's include_sources if it
\* defines one, else false.
C3_IncludeSourcesChain ==
    \A c \in Calls :
        (Accepted(c) /\ TemplateSource(c) \in {"none", "named", "custom"})
            => /\ Len(sent[c]) = 1
               /\ Outbound(c).include_sources =
                    Expected(c, "include_sources", Bool(FALSE))

C3_Witness ==
    \E c \in Calls :
        /\ Accepted(c)
        /\ Arg(c, "custom_template") = Undefined
        /\ Arg(c, "prompt_template") = S("technical_docs")
        /\ Arg(c, "include_sources") = Bool(FALSE)
        /\ Len(sent[c]) = 1
        /\ Outbound(c).include_sources = Bool(FALSE)

\* C4: the format sent is the override if present, else the selected
\* template's format if it defines one, else 'text'; no template and no
\* overrides give no system message, 'text' and false; a catalog key and no
\* overrides give that entry's system, format and include_sources.
C4_FormatChain ==
    \A c \in Calls :
        (Accepted(c) /\ TemplateSource(c) \in {"none", "named", "custom"})
            => /\ Len(sent[c]) = 1
               /\ Outbound(c).format = Expected(c, "format", S("text"))
               /\ (TemplateSource(c) = "none" /\ Arg(c, "format") = Undefined
                                              /\ Arg(c, "include_sources") = Undefined)
                    => /\ Outbound(c).messages = Arg(c, "messages")
                       /\ Outbound(c).format = S("text")
                       /\ Outbound(c).include_sources = Bool(FALSE)
               /\ (TemplateSource(c) = "named" /\ Arg(c, "format") = Undefined
                                               /\ Arg(c, "include_sources") = Undefined)
                    => LET entry == PROMPT_TEMPLATES.fields[Arg(c, "prompt_template").s[1]].fields
                       IN  /\ Outbound(c).messages.items[1] =
                                Obj([role |-> S("system"), content |-> entry.system])
                           /\ Outbound(c).format = entry.format
                           /\ Outbound(c).include_sources = entry.include_sources

C4_Witness ==
    \E c \in Calls :
        /\ Accepted(c)
        /\ Arg(c, "custom_template") = Undefined
        /\ Arg(c, "prompt_template") = S("technical_docs")
        /\ Arg(c, "format") = S("json")
        /\ Len(sent[c]) = 1
        /\ Outbound(c).format = S("json")

\* The system prompt the call resolved: the selected template's system
\* string, or undefined when there is none.
ResolvedPrompt(c) ==
    IF Truthy(template[c]) THEN Get(template[c], "system") ELSE Undefined

\* C5 (as claimed): with a system prompt resolved the outbound messages are
\* the system message followed by the caller's messages in order; with none
\* resolved they are the caller's messages unchanged.
C5_MessageComposition ==
    \A c \in Calls :
        (Accepted(c) /\ Len(sent[c]) = 1)
            => IF ResolvedPrompt(c) # Undefined
               THEN /\ Len(Outbound(c).messages.items) = Len(Arg(c, "messages").items) + 1
                    /\ Outbound(c).messages.items[1] =
                         Obj([role |-> S("system"), content |-> ResolvedPrompt(c)])
                    /\ \A i \in 1..Len(Arg(c, "messages").items) :
                         Outbound(c).messages.items[i + 1] = Arg(c, "messages").items[i]
               ELSE Outbound(c).messages = Arg(c, "messages")

\* The envelope slot c returned.
Envelope(c) == outcome[c].value.fields

\* The single content item of the envelope slot c returned.
Item(c) == Envelope(c).content.items[1].fields

\* The parsed body has a choices[0].message object.
HasMessage(data) ==
    /\ data.type = "object"
    /\ "choices" \in DOMAIN data.fields
    /\ data.fields.choices.type = "array"
    /\ Len(data.fields.choices.items) >= 1
    /\ data.fields.choices.items[1].type = "object"
    /\ "message" \in DOMAIN data.fields.choices.items[1].fields
    /\ data.fields.choices.items[1].fields.message.type = "object"

\* The remote call of the returned invocation in slot c failed: fetch
\* rejected (abort or network), the status was not a success, the body of a
\* success could not be read or parsed, or it has no choices[0].message.
FailureOutcome(c) ==
    \/ response[c] = Undefined
    \/ response[c].fields.ok = Bool(FALSE)
    \/ body[c].kind = "rejected"
    \/ body[c].kind = "resolved" /\ ~HasMessage(body[c].value)

LacksMessageShape(data) ==
    \/ ~HasMessage(data)
    \/ "content" \notin DOMAIN data.fields.choices.items[1].fields.message.fields

\* C7 (as claimed): a success status whose body lacks the choices[0].message
\* shape gives an error envelope with the malformed-response diagnostic.
C7_MalformedDiagnostic ==
    \A c \in Calls :
        (/\ pc[c] = "returned"
         /\ response[c] # Undefined
         /\ response[c].fields.ok = Bool(TRUE)
         /\ body[c].kind = "resolved"
         /\ LacksMessageShape(body[c].value))
            => /\ "isError" \in DOMAIN Envelope(c)
               /\ Envelope(c).isError = Bool(TRUE)
               /\ Contains(Item(c).text, "Invalid response format from Perplexity API")

\* C8 (as claimed): a non-success status gives an error envelope whose text
\* contains the status text, whatever the error body is, and the remote
\* detail is appended only when the parsed body has an error member.
C8_StatusTextAlways ==
    \A c \in Calls :
        (/\ pc[c] = "returned"
         /\ response[c] # Undefined
         /\ response[c].fields.ok = Bool(FALSE))
            => /\ "isError" \in DOMAIN Envelope(c)
               /\ Envelope(c).isError = Bool(TRUE)
               /\ Contains(Item(c).text, response[c].fields.statusText.s[1])
               /\ Contains(Item(c).text, " - ")
                    => /\ body[c].kind = "resolved"
                       /\ body[c].value.type = "object"
                       /\ "error" \in DOMAIN body[c].value.fields

\* C9: a success envelope has one content item, typed 'json' exactly when
\* the effective format is 'json' and 'text' otherwise, whose text is the
\* remote choices[0].message.content as received, and no isError.
C9_SuccessEnvelope ==
    \A c \in Calls :
        (pc[c] = "returned" /\ ~FailureOutcome(c))
            => LET message == body[c].value.fields.choices.items[1].fields.message.fields
               IN  /\ outcome[c].kind = "resolved"
                   /\ "isError" \notin DOMAIN Envelope(c)
                   /\ Len(Envelope(c).content.items) = 1
                   /\ Item(c).type = IF Outbound(c).format = S("json")
                                     THEN S("json") ELSE S("text")
                   /\ Item(c).text = IF "content" \in DOMAIN message
                                     THEN message.content ELSE Undefined

C9_Witness ==
    \E c \in Calls :
        /\ pc[c] = "returned"
        /\ ~FailureOutcome(c)
        /\ Outbound(c).format = S("markdown")
        /\ Item(c).type = S("text")
        /\ Item(c).text = S("answer")

\* C10: a call whose name is not chat_completion throws MethodNotFound
\* before anything else: no argument is read, no timer created, no request
\* sent, no envelope returned.
C10_UnknownToolRejected ==
    \A c \in Calls :
        (pc[c] # "idle" /\ request[c].name # S("chat_completion"))
            => /\ pc[c] = "thrown"
               /\ outcome[c].kind = "rejected"
               /\ outcome[c].error.class = "McpError"
               /\ outcome[c].error.code = MethodNotFound
               /\ timeoutId[c] = "none"
               /\ ~aborted[c]
               /\ sent[c] = <<>>
               /\ template[c] = Undefined
               /\ format[c] = Undefined
               /\ include_sources[c] = Undefined
               /\ final_messages[c] = Undefined

C10_Witness ==
    \E c \in Calls :
        /\ pc[c] = "thrown"
        /\ request[c].name = S("other_tool")
        /\ request[c].arguments.fields.prompt_template = S("api_docs")
        /\ outcome[c].kind = "rejected"

\* The ranges the input schema declares (temperature in tenths).
TemperatureMinimum == 0

TemperatureMaximum == 10

MaxTokensMinimum == 1

MaxTokensMaximum == 4096

\* C11 (as claimed): no request sent carries a max_tokens outside [1,4096]
\* or a temperature outside [0,1]; omitted, they are sent as 1024 and 0.7;
\* a call that supplies a value out of range is rejected with an
\* invalid-argument error and nothing is sent.
C11_RangesEnforced ==
    \A c \in Calls :
        Accepted(c)
            => LET inRange(v, lo, hi) == v.type = "number" /\ lo <= v.n /\ v.n <= hi
                   temperatureOk(v) == inRange(v, TemperatureMinimum, TemperatureMaximum)
                   maxTokensOk(v) == inRange(v, MaxTokensMinimum, MaxTokensMaximum)
               IN  /\ \A i \in 1..Len(sent[c]) :
                        /\ temperatureOk(sent[c][i].fields.temperature)
                        /\ maxTokensOk(sent[c][i].fields.max_tokens)
                        /\ Arg(c, "temperature") = Undefined
                             => sent[c][i].fields.temperature = Num(DefaultTemperature)
                        /\ Arg(c, "max_tokens") = Undefined
                             => sent[c][i].fields.max_tokens = Num(DefaultMaxTokens)
                   /\ (\/ Arg(c, "temperature") # Undefined /\ ~temperatureOk(Arg(c, "temperature"))
                       \/ Arg(c, "max_tokens") # Undefined /\ ~maxTokensOk(Arg(c, "max_tokens")))
                        => /\ outcome[c].kind = "rejected"
                           /\ outcome[c].error.code = InvalidParams
                           /\ sent[c] = <<>>

\* The invocation in slot c is between the call of fetch and its return.
InFlight(c) == pc[c] \in {"fetching", "reading_error_body", "reading_body"}

\* C12: when an invocation has returned, whatever the envelope, its timer is
\* cancelled or has fired; from the moment the request is issued until the
\* body is read and validated the timer is armed (or has fired), and it is
\* cancelled by nothing but the return.
C12_TimerReleased ==
    \A c \in Calls :
        Accepted(c)
            => /\ pc[c] = "returned" => timeoutId[c] \in {"cleared", "fired"}
               /\ InFlight(c) => timeoutId[c] \in {"pending", "fired"}
               /\ sent[c] # <<>> => timeoutId[c] # "none"
               /\ timeoutId[c] = "cleared" => pc[c] = "returned"
               /\ timeoutId[c] = "fired" <=> aborted[c]

C12_Witness ==
    \E c \in Calls :
        /\ pc[c] = "returned"
        /\ timeoutId[c] = "cleared"
        /\ response[c] # Undefined
        /\ response[c].fields.ok = Bool(FALSE)
        /\ body[c] = Rejected(SyntaxError)

\* C13: under fairness of the timer and of the abort-honouring fetch every
\* accepted invocation eventually returns an envelope; one whose timer
\* fired before the remote had answered returns an error envelope, and an
\* envelope once returned is never replaced.
C13_EventuallyReturns ==
    /\ [](\A c \in Calls :
            (aborted[c] /\ pc[c] = "returned")
                => /\ outcome[c].kind = "resolved"
                   /\ "isError" \in DOMAIN Envelope(c)
                   /\ Envelope(c).isError = Bool(TRUE))
    /\ [][\A c \in Calls :
            pc[c] = "returned" => pc'[c] = "returned" /\ outcome'[c] = outcome[c]]_vars
    /\ \A c \in Calls :
         (Accepted(c) /\ InFlight(c))
            ~> (pc[c] = "returned" /\ outcome[c].kind = "resolved")

C13_Witness ==
    \E c \in Calls :
        /\ pc[c] = "returned"
        /\ aborted[c]
        /\ response[c] = Undefined
        /\ Envelope(c).isError = Bool(TRUE)
        /\ Contains(Item(c).text, "This operation was aborted")

\* Everything slot c holds.
SlotState(c) ==
    <<pc[c], request[c], template[c], format[c], include_sources[c],
      final_messages[c], timeoutId[c], aborted[c], sent[c], response[c],
      body[c], outcome[c]>>

\* C14: with invocations running concurrently in any interleaving, a step
\* touches one invocation only; a signal is aborted by the firing of its own
\* invocation's timer and a timer is cancelled by its own invocation's
\* return; the configuration and the request of an invocation follow from
\* its own arguments (a catalog key always resolves to the same catalog
\* entry), and its envelope from its own arguments and its own remote
\* answer.
C14_InvocationsIndependent ==
    /\ [][\A c \in Calls :
            /\ \A d \in Calls \ {c} :
                 SlotState(c)' # SlotState(c) => SlotState(d)' = SlotState(d)
            /\ (aborted'[c] /\ ~aborted[c])
                 => timeoutId[c] = "pending" /\ timeoutId'[c] = "fired"
            /\ (timeoutId'[c] = "cleared" /\ timeoutId[c] # "cleared")
                 => pc[c] # "returned" /\ pc'[c] = "returned"]_vars
    /\ [](\A c \in Calls :
            /\ (Accepted(c) /\ TemplateSource(c) = "named")
                 => template[c] = PROMPT_TEMPLATES.fields[Arg(c, "prompt_template").s[1]]
            /\ \A d \in Calls :
                 /\ (Accepted(c) /\ Accepted(d) /\ request[c] = request[d])
                      => /\ template[c] = template[d]
                         /\ format[c] = format[d]
                         /\ include_sources[c] = include_sources[d]
                         /\ sent[c] = sent[d]
                 /\ (/\ pc[c] = "returned" /\ pc[d] = "returned"
                     /\ request[c] = request[d] /\ response[c] = response[d]
                     /\ body[c] = body[d] /\ aborted[c] = aborted[d])
                      => outcome[c] = outcome[d])

C14_Witness ==
    \E c, d \in Calls :
        /\ c # d
        /\ request[c] = request[d]
        /\ pc[c] = "returned" /\ aborted[c] /\ timeoutId[c] = "fired"
        /\ Envelope(c).isError = Bool(TRUE)
        /\ pc[d] = "returned" /\ ~aborted[d] /\ timeoutId[d] = "cleared"
        /\ "isError" \notin DOMAIN Envelope(d)
        /\ Item(d).text = S("answer")

====
